---- MODULE Spec2Model ----
(***************************************************************************)
(* Model of the wall_library guard: validators and their on-fail actions,  *)
(* WallGuard / AsyncGuard (use, configure, validate, __call__), the Runner *)
(* that invokes the model caller, and Validator.on_fail_handler.           *)
(*                                                                         *)
(* Every guard operation is synchronous from its caller's point of view,   *)
(* so each one is a single action.  The variables below `num_reasks` hold  *)
(* what the most recent operation returned or raised and what it did to    *)
(* the outside world (model-caller invocations, sleeps, handler calls).    *)
(***************************************************************************)
EXTENDS Integers, Sequences, FiniteSets, TLC

VARIABLES
    validators,     \* WallGuard.validators: every validator instance added
    validator_map,  \* WallGuard.validator_map: target -> bound instances
    num_reasks,     \* WallGuard.num_reasks
    op,             \* the most recent operation and its arguments
    outcome,        \* the ValidationOutcome it returned (NoneVal if none)
    raised,         \* the exception it raised (NoneVal if it returned)
    api_calls,      \* the prompts the model caller was invoked with, in order
    sleeps,         \* the delays of the backoff sleeps it performed, in order
    resolutions,    \* the on_fail_handler invocations it performed, in order
    ran,            \* the validators whose validate method it invoked, in order
    service_results, \* the result list a validator service returned
    registry,       \* validator_base._VALIDATOR_REGISTRY: id -> class
    class_alias,    \* the rail_alias class attribute of each validator class
    registrations,  \* the registrations made so far: (alias, class), in order
    lookup,         \* the id get_validator was called with and what it returned
    processed_schema, \* WallGuard.processed_schema (empty if None)
    compiled,       \* the plan rail_string_to_schema returned (empty if none)
    history,        \* the Call records it created, each with its Iterations
    tasks,          \* the validations in progress on the guard, one per task
    logged          \* the warnings the rules compilation logged, in order

vars == <<validators, validator_map, num_reasks, op, outcome, raised,
          api_calls, sleeps, resolutions, ran, service_results,
          registry, class_alias, registrations, lookup, processed_schema,
          compiled, history, tasks, logged>>

----------------------------------------------------------------------------
(* Bounds of the model *)

MaxValidators == 2
MaxReasks == 3
MaxRegistrations == 2
MaxTasks == 2

----------------------------------------------------------------------------
(* Values *)

\* Python's None
NoneVal == "<None>"

\* Candidate outputs: one too short for the length validator, one in range
Values == {"Hi", "Hello World"}

\* Targets a validator can be bound to with use(..., on=...)
Targets == {"output", "input"}

\* The closed enumeration of on-fail actions, by string value
OnFailAction ==
    {"exception", "filter", "refrain", "noop", "fix", "reask", "fix_reask",
     "custom"}

\* OnFailAction.__members__: member name -> member
OnFailMembers ==
    [n \in {"EXCEPTION", "FILTER", "REFRAIN", "NOOP", "FIX", "REASK",
            "FIX_REASK", "CUSTOM"} |->
        CASE n = "EXCEPTION" -> "exception"
          [] n = "FILTER"    -> "filter"
          [] n = "REFRAIN"   -> "refrain"
          [] n = "NOOP"      -> "noop"
          [] n = "FIX"       -> "fix"
          [] n = "REASK"     -> "reask"
          [] n = "FIX_REASK" -> "fix_reask"
          [] n = "CUSTOM"    -> "custom"]

\* str.upper() on the strings passed as on_fail in the model
Upper(s) ==
    CASE s = "noop"  -> "NOOP"
      [] s = "Fix"   -> "FIX"
      [] s = "bogus" -> "BOGUS"

----------------------------------------------------------------------------
(* Validation results *)

\* The empty dictionary {}, the metadata the guard and the services pass
EmptyDict == "{}"

\* PassResult(metadata=metadata)
PassResult == [outcome |-> "pass", metadata |-> EmptyDict]

\* FailResult(error_message=..., fix_value=..., metadata=metadata)
FailResult(error_message, fix_value) ==
    [outcome |-> "fail", error_message |-> error_message,
     fix_value |-> fix_value, error_spans |-> <<>>, metadata |-> EmptyDict]

\* An exception raised inside _validate or _async_validate, with the text
\* str(e) gives
Raise(text) ==
    [outcome |-> "raise", error_message |-> text, fix_value |-> NoneVal,
     error_spans |-> <<>>, metadata |-> EmptyDict]

is_pass(r) == r.outcome = "pass"

is_fail(r) == r.outcome = "fail"

----------------------------------------------------------------------------
(* Validators *)

min_length == 5
max_length == 20
completeness_min == 100

Disclaimer ==
    " [IMPORTANT: This is general information. Consult a healthcare provider for personalized medical advice.]"

\* LengthValidator._validate
LengthValidator_validate(value) ==
    LET length == Len(value) IN
    IF length < min_length
    THEN FailResult("Value too short. Minimum length: " \o ToString(min_length)
                    \o ", got: " \o ToString(length), NoneVal)
    ELSE IF length > max_length
    THEN FailResult("Value too long. Maximum length: " \o ToString(max_length)
                    \o ", got: " \o ToString(length), NoneVal)
    ELSE PassResult

\* AlwaysFailValidator._validate
AlwaysFailValidator_validate(value) ==
    FailResult("Always fails for testing", NoneVal)

\* HealthcareCompletenessValidator._validate
HealthcareCompletenessValidator_validate(value) ==
    IF Len(value) < completeness_min
    THEN FailResult("Response too short: " \o ToString(Len(value))
                    \o " < 100 characters. Healthcare responses must be detailed.",
                    value \o Disclaimer)
    ELSE PassResult

\* Validator subclasses whose _validate or _async_validate raises: with a
\* message, without one (str(e) is empty), and in the async method
CrashingClasses == {"test_crasher", "test_silent_crasher", "test_async_crasher"}

ValidatorClasses ==
    {"test_length", "test_failer", "healthcare_completeness_fix"}
    \cup CrashingClasses

\* The _validate of each validator class; a class that does not override it
\* has the base implementation, which passes
_validate(v, value) ==
    CASE v.cls = "test_length" -> LengthValidator_validate(value)
      [] v.cls = "test_failer" -> AlwaysFailValidator_validate(value)
      [] v.cls = "healthcare_completeness_fix" ->
             HealthcareCompletenessValidator_validate(value)
      [] v.cls = "test_crasher" -> Raise("boom")
      [] v.cls = "test_silent_crasher" -> Raise("")
      [] OTHER -> PassResult

\* Validator._async_validate: no validator class of the library overrides it
_async_validate(v, value) ==
    CASE v.cls = "test_async_crasher" -> Raise("boom")
      [] OTHER -> PassResult

\* metadata = metadata or {}
metadata_or_empty(metadata) ==
    IF metadata = NoneVal THEN EmptyDict ELSE metadata

\* The try block without its except clause: the exception leaves the method
try_except_reraise(r, metadata) == [r EXCEPT !.metadata = metadata]

\* try: return result / except Exception as e: return
\* FailResult(error_message=str(e), metadata=metadata).  The validators of
\* the model return the metadata they are called with.
try_except(r, metadata) ==
    IF r.outcome = "raise"
    THEN [FailResult(r.error_message, NoneVal) EXCEPT !.metadata = metadata]
    ELSE [r EXCEPT !.metadata = metadata]

\* Validator.validate(value, metadata)
Validator_validate_metadata(v, value, metadata) ==
    try_except(_validate(v, value), metadata_or_empty(metadata))

\* Validator.async_validate(value, metadata)
Validator_async_validate_metadata(v, value, metadata) ==
    try_except(_async_validate(v, value), metadata_or_empty(metadata))

\* Validator.validate as the guard and the services call it: metadata = {}
Validator_validate(v, value) == Validator_validate_metadata(v, value, EmptyDict)

\* Validator.async_validate as the guard and the services call it
Validator_async_validate(v, value) ==
    Validator_async_validate_metadata(v, value, EmptyDict)

----------------------------------------------------------------------------
(* Validator construction *)

\* A callable passed as on_fail: it substitutes a fixed replacement
Handlers == {"redact"}

\* on_fail_method(value, fail_result) for the callables of the model
CallHandler(h, value, fail_result) == "[REDACTED]"

\* The on_fail arguments a validator is constructed with
OnFailArgs ==
    {[type |-> "none", v |-> NoneVal]}
    \cup {[type |-> "enum", v |-> a] : a \in OnFailAction}
    \cup {[type |-> "str", v |-> s] : s \in {"noop", "Fix", "bogus"}}
    \cup {[type |-> "callable", v |-> h] : h \in Handlers}

\* Validator.__init__: the on_fail argument becomes on_fail_descriptor and
\* on_fail_method
Validator_init(cls, on_fail_arg) ==
    LET on_fail == IF on_fail_arg.type = "none"
                   THEN [type |-> "enum", v |-> "exception"]
                   ELSE on_fail_arg
    IN  IF on_fail.type = "enum"
        THEN [cls |-> cls, on_fail_descriptor |-> on_fail.v,
              on_fail_method |-> NoneVal]
        ELSE IF on_fail.type = "str" /\ Upper(on_fail.v) \in DOMAIN OnFailMembers
        THEN [cls |-> cls,
              on_fail_descriptor |-> OnFailMembers[Upper(on_fail.v)],
              on_fail_method |-> NoneVal]
        ELSE IF on_fail.type = "callable"
        THEN [cls |-> cls, on_fail_descriptor |-> "custom",
              on_fail_method |-> on_fail.v]
        ELSE [cls |-> cls, on_fail_descriptor |-> "exception",
              on_fail_method |-> NoneVal]

----------------------------------------------------------------------------
(* The on-fail resolver *)

\* Nothing was raised
NoException ==
    [type |-> NoneVal, message |-> NoneVal, error_spans |-> <<>>,
     fix_value |-> NoneVal]

ValidationError(fail_result) ==
    [type |-> "ValidationError", message |-> fail_result.error_message,
     error_spans |-> fail_result.error_spans,
     fix_value |-> fail_result.fix_value]

\* Python's TypeError for a keyword argument passed twice
TypeError ==
    [type |-> "TypeError",
     message |-> "run() got multiple values for keyword argument 'prompt'",
     error_spans |-> <<>>, fix_value |-> NoneVal]

\* on_fail_handler as a lookup that knows only the actions it lists
on_fail_handler_lookup(v, value, fail_result) ==
    IF v.on_fail_descriptor = "exception"
    THEN [kind |-> "raise", exc |-> ValidationError(fail_result)]
    ELSE IF v.on_fail_descriptor = "filter"
    THEN [kind |-> "return", value |-> NoneVal]
    ELSE IF v.on_fail_descriptor = "fix"
    THEN [kind |-> "return", value |-> fail_result.fix_value]
    ELSE IF v.on_fail_descriptor = "refrain"
    THEN [kind |-> "return", value |-> ""]
    ELSE IF v.on_fail_descriptor = "noop"
    THEN [kind |-> "return", value |-> value]
    ELSE [kind |-> "raise",
          exc |-> [type |-> "KeyError", message |-> v.on_fail_descriptor,
                   error_spans |-> <<>>, fix_value |-> NoneVal]]

\* Validator.on_fail_handler: what the call does, a raise or a return
on_fail_handler(v, value, fail_result) ==
    IF v.on_fail_descriptor = "exception"
    THEN [kind |-> "raise", exc |-> ValidationError(fail_result)]
    ELSE IF v.on_fail_descriptor = "filter"
    THEN [kind |-> "return", value |-> NoneVal]
    ELSE IF v.on_fail_descriptor = "fix"
    THEN [kind |-> "return", value |-> fail_result.fix_value]
    ELSE IF v.on_fail_descriptor = "refrain"
    THEN [kind |-> "return", value |-> ""]
    ELSE IF v.on_fail_descriptor = "noop"
    THEN [kind |-> "return", value |-> value]
    ELSE IF v.on_fail_descriptor = "custom" /\ v.on_fail_method # NoneVal
    THEN [kind |-> "return",
          value |-> CallHandler(v.on_fail_method, value, fail_result)]
    ELSE [kind |-> "return", value |-> value]

----------------------------------------------------------------------------
(* The model caller *)

\* Model-caller stubs: one whose output always passes the length validator,
\* one whose first two outputs are too short, one whose output never passes
Stubs == {"passes", "fails_twice", "never_passes"}

\* The number of leading invocations on which a stub's output is too short
FailingAttempts(llm_api) ==
    CASE llm_api = "passes" -> 0
      [] llm_api = "fails_twice" -> 2

\* The output of the stub on its attempt-th invocation
StubOutput(llm_api, attempt) ==
    IF llm_api = "never_passes" THEN "Hi"
    ELSE IF attempt <= FailingAttempts(llm_api) THEN "Hi"
    ELSE "Hello World"

\* get_reask_setup()["backoff_factor"]
backoff_factor == 2

\* A keyword argument that was not passed
Absent == "<absent>"

\* kwargs.get(key, default)
kwargs_get(value, default) == IF value = Absent THEN default ELSE value

\* Runner.run if it re-invoked the model caller once more than the reask
\* budget allows
Runner_run_extra_attempt(llm_api, n_reasks, prompt) ==
    [output |-> StubOutput(llm_api, n_reasks + 2),
     api_calls |-> [k \in 1..(n_reasks + 2) |-> prompt],
     sleeps |-> [k \in 1..(n_reasks + 1) |-> 2 ^ (k - 1)]]

\* Runner.run: what one run does to the model caller and what it returns
Runner_run(llm_api, n_reasks, prompt) ==
    [output |-> StubOutput(llm_api, 1), api_calls |-> <<prompt>>,
     sleeps |-> <<>>]

\* AsyncRunner.run
AsyncRunner_run(llm_api, n_reasks, prompt) ==
    [output |-> StubOutput(llm_api, 1), api_calls |-> <<prompt>>,
     sleeps |-> <<>>]

----------------------------------------------------------------------------
(* The validator registry *)

\* The keys the registry is looked up with: "length" is the id the rules
\* documents name, no class is registered under "nope"
Ids == {"length", "hub/length", "nope",
        "lengthvalidator", "alwaysfailvalidator",
        "healthcarecompletenessvalidator"}

\* cls.__name__.lower() of the validator classes
class_name_lower(cls) ==
    CASE cls = "test_length" -> "lengthvalidator"
      [] cls = "test_failer" -> "alwaysfailvalidator"
      [] cls = "healthcare_completeness_fix" -> "healthcarecompletenessvalidator"

\* _VALIDATOR_REGISTRY = {}: a key is absent when it maps to None
EmptyRegistry == [id \in Ids |-> NoneVal]

\* No get_validator call has been made
NoLookup == [id |-> NoneVal, cls |-> NoneVal]

\* The decorator with setdefault in place of the item assignment
register_validator_first_wins(reg, aliases, rail_alias, cls) ==
    LET alias == IF rail_alias # NoneVal /\ rail_alias # "" THEN rail_alias
                 ELSE IF aliases[cls] # "" THEN aliases[cls]
                 ELSE class_name_lower(cls)
    IN  [registry |-> IF reg[alias] = NoneVal
                      THEN [reg EXCEPT ![alias] = cls] ELSE reg,
         class_alias |-> [aliases EXCEPT ![cls] = alias],
         alias |-> alias]

\* register_validator(rail_alias)(cls): the registry and the class
\* attributes after the decorator has run, and the alias it chose
register_validator(reg, aliases, rail_alias, cls) ==
    LET alias == IF rail_alias # NoneVal /\ rail_alias # "" THEN rail_alias
                 ELSE IF aliases[cls] # "" THEN aliases[cls]
                 ELSE class_name_lower(cls)
    IN  [registry |-> [reg EXCEPT ![alias] = cls],
         class_alias |-> [aliases EXCEPT ![cls] = alias],
         alias |-> alias]

\* get_validator(validator_id): _VALIDATOR_REGISTRY.get(validator_id)
get_validator(reg, validator_id) ==
    IF validator_id \in DOMAIN reg THEN reg[validator_id] ELSE NoneVal

----------------------------------------------------------------------------
(* The validator services *)

\* No validator has run yet: results = [] before a loop
NoRuns == [results |-> <<>>, ran |-> <<>>]

\* for validator in validators: result = validator.validate(value, metadata);
\* results.append(result).  acc holds the results so far and the positions
\* of the validators that have been run.
RECURSIVE validate_each(_, _, _)
validate_each(vs, value, acc) ==
    IF Len(acc.ran) = Len(vs) THEN acc
    ELSE LET i == Len(acc.ran) + 1 IN
         validate_each(vs, value,
             [results |-> Append(acc.results, Validator_validate(vs[i], value)),
              ran |-> Append(acc.ran, i)])

\* The same loop over validator.async_validate
RECURSIVE async_validate_each(_, _, _)
async_validate_each(vs, value, acc) ==
    IF Len(acc.ran) = Len(vs) THEN acc
    ELSE LET i == Len(acc.ran) + 1 IN
         async_validate_each(vs, value,
             [results |-> Append(acc.results,
                                 Validator_async_validate(vs[i], value)),
              ran |-> Append(acc.ran, i)])

\* The sequential loop left at the first failed result
SequentialValidatorService_short_circuit(value, vs) ==
    LET every == [i \in 1..Len(vs) |-> Validator_validate(vs[i], value)]
        failed == {i \in 1..Len(vs) : is_fail(every[i])}
        last == IF failed = {} THEN Len(vs)
                ELSE CHOOSE i \in failed : \A j \in failed : i <= j
    IN  [results |-> SubSeq(every, 1, last), ran |-> [i \in 1..last |-> i]]

\* SequentialValidatorService.validate(value, validators, metadata)
SequentialValidatorService_validate(value, vs) ==
    validate_each(vs, value, NoRuns)

\* The orders in which n concurrent tasks can complete
CompletionOrders(n) ==
    {order \in [1..n -> 1..n] :
        \A i, j \in 1..n : order[i] = order[j] => i = j}

\* AsyncValidatorService.validate(value, validators, metadata): one
\* validator.async_validate task per validator; the tasks complete in the
\* given order and asyncio.gather returns their results in argument order
AsyncValidatorService_validate(value, vs, order) ==
    [results |-> [i \in 1..Len(vs) |-> Validator_async_validate(vs[i], value)],
     ran |-> order]

----------------------------------------------------------------------------
(* The guard *)

\* The lookup that returns the validators of every target
map_get_any_target(vmap, target) == vmap["output"] \o vmap["input"]

\* validator_map.get(target, []): a key is present in the dictionary exactly
\* when its list is non-empty, so an absent key is the empty list
map_get(vmap, target) == vmap[target]

\* error_spans.extend(result.error_spans) over the failed results, in order
RECURSIVE extend_error_spans(_)
extend_error_spans(results) ==
    IF results = <<>> THEN <<>>
    ELSE LET r == Head(results) IN
         (IF is_fail(r) /\ "error_spans" \in DOMAIN r
          THEN r.error_spans ELSE <<>>)
         \o extend_error_spans(Tail(results))

\* any() in place of all()
any_pass(results) == \E i \in 1..Len(results) : is_pass(results[i])

\* all(r.is_pass for r in validation_results)
all_pass(results) == \A i \in 1..Len(results) : is_pass(results[i])

\* ValidationOutcome(...) with validated_output set unconditionally
ValidationOutcome_unconditional(llm_output, validation_results) ==
    [validated_output |-> llm_output,
     raw_output |-> llm_output,
     validation_passed |-> all_pass(validation_results),
     error_spans |-> extend_error_spans(validation_results),
     metadata |-> [validation_results |-> validation_results]]

\* ValidationOutcome(...) as WallGuard.validate and async_validate build it
ValidationOutcome(llm_output, validation_results) ==
    LET validation_passed == all_pass(validation_results) IN
    [validated_output |-> IF validation_passed THEN llm_output ELSE NoneVal,
     raw_output |-> llm_output,
     validation_passed |-> validation_passed,
     error_spans |-> extend_error_spans(validation_results),
     metadata |-> [validation_results |-> validation_results]]

\* The loop of WallGuard.validate left at the first failed result
validate_loop_short_circuit(output_validators, llm_output) ==
    LET every == [i \in 1..Len(output_validators) |->
                     Validator_validate(output_validators[i], llm_output)]
        failed == {i \in 1..Len(output_validators) : is_fail(every[i])}
        last == IF failed = {} THEN Len(output_validators)
                ELSE CHOOSE i \in failed : \A j \in failed : i <= j
    IN  [results |-> SubSeq(every, 1, last), ran |-> [i \in 1..last |-> i]]

\* The loop of WallGuard.validate: for validator in output_validators, call
\* validator.validate(llm_output) and append its result
validate_loop(output_validators, llm_output) ==
    validate_each(output_validators, llm_output, NoRuns)

\* The loop of AsyncGuard.async_validate: each validator.async_validate is
\* awaited before the next one is called
async_validate_loop(output_validators, llm_output) ==
    async_validate_each(output_validators, llm_output, NoRuns)

\* WallGuard.validate: the outcome it returns, the validators it runs and
\* the on_fail_handler invocations it makes on the way
validate(vmap, llm_output) ==
    LET output_validators == map_get(vmap, "output")
        loop == validate_loop(output_validators, llm_output)
    IN  [raised |-> NoException,
         outcome |-> ValidationOutcome(llm_output, loop.results),
         resolutions |-> <<>>,
         ran |-> loop.ran]

\* AsyncGuard.async_validate
async_validate(vmap, llm_output) ==
    LET output_validators == map_get(vmap, "output")
        loop == async_validate_loop(output_validators, llm_output)
    IN  [raised |-> NoException,
         outcome |-> ValidationOutcome(llm_output, loop.results),
         resolutions |-> <<>>,
         ran |-> loop.ran]

\* WallGuard.__call__: without a model caller it validates the given output;
\* with one it runs the Runner and validates what the run returned.  A prompt
\* keyword reaches Runner.run twice (prompt=prompt and **kwargs).
guard_call(vmap, n_reasks, llm_api, kwargs) ==
    IF llm_api = NoneVal
    THEN LET v == validate(vmap, kwargs_get(kwargs.output, "")) IN
         [raised |-> v.raised, outcome |-> <<v.outcome>>,
          api_calls |-> <<>>, sleeps |-> <<>>, history |-> <<>>, resolutions |-> v.resolutions,
          ran |-> v.ran]
    ELSE IF kwargs.prompt # Absent
    THEN [raised |-> TypeError, outcome |-> <<>>,
          api_calls |-> <<>>, sleeps |-> <<>>, history |-> <<>>, resolutions |-> <<>>,
          ran |-> <<>>]
    ELSE LET prompt == kwargs_get(kwargs.prompt, "")
             run == Runner_run(llm_api, n_reasks, prompt)
             v == validate(vmap, run.output)
         IN  [raised |-> v.raised, outcome |-> <<v.outcome>>,
              api_calls |-> run.api_calls, sleeps |-> run.sleeps,
              history |-> <<>>,
              resolutions |-> v.resolutions, ran |-> v.ran]

\* AsyncGuard.__call__
async_guard_call(vmap, n_reasks, llm_api, kwargs) ==
    IF llm_api = NoneVal
    THEN LET v == async_validate(vmap, kwargs_get(kwargs.output, "")) IN
         [raised |-> v.raised, outcome |-> <<v.outcome>>,
          api_calls |-> <<>>, sleeps |-> <<>>, history |-> <<>>, resolutions |-> v.resolutions,
          ran |-> v.ran]
    ELSE IF kwargs.prompt # Absent
    THEN [raised |-> TypeError, outcome |-> <<>>,
          api_calls |-> <<>>, sleeps |-> <<>>, history |-> <<>>, resolutions |-> <<>>,
          ran |-> <<>>]
    ELSE LET prompt == kwargs_get(kwargs.prompt, "")
             run == AsyncRunner_run(llm_api, n_reasks, prompt)
             v == async_validate(vmap, run.output)
         IN  [raised |-> v.raised, outcome |-> <<v.outcome>>,
              api_calls |-> run.api_calls, sleeps |-> run.sleeps,
              history |-> <<>>,
              resolutions |-> v.resolutions, ran |-> v.ran]

----------------------------------------------------------------------------
(* Rules documents and their compilation *)

\* Python's ValueError
ValueError(message) ==
    [type |-> "ValueError", message |-> message, error_spans |-> <<>>,
     fix_value |-> NoneVal]

\* Python's TypeError for a call that leaves out a positional parameter
MissingArgument ==
    [type |-> "TypeError",
     message |-> "add_validator() missing 1 required positional argument: 'json_path'",
     error_spans |-> <<>>, fix_value |-> NoneVal]

\* An element of a rules document: its name attribute, its validators
\* attribute as the parts between the ";" separators, its on-fail-<name>
\* attributes as (name, value) pairs, and its child elements
Element(name, validators_attr, on_fail_attrs, children) ==
    [name |-> name, validators |-> validators_attr, on_fail |-> on_fail_attrs,
     children |-> children]

\* Malformed markup
MalformedRail == [well_formed |-> FALSE, output |-> <<>>]

\* The document of rail_example.py: the output element holds a string field
\* that names the validator "length" with on-fail-length="exception"
FieldRail ==
    [well_formed |-> TRUE,
     output |-> <<Element(NoneVal, <<>>, <<>>,
                    <<Element("name", <<"length">>,
                              <<[name |-> "length", value |-> "exception"]>>,
                              <<>>)>>)>>]

\* A document whose output element names the validator itself
OutputRail ==
    [well_formed |-> TRUE,
     output |-> <<Element("answer", <<"length">>,
                          <<[name |-> "length", value |-> "exception"]>>,
                          <<>>)>>]

\* A document whose output element names an unknown id, a known id without
\* an on-fail attribute, and an on-fail value that is no action
MixedRail ==
    [well_formed |-> TRUE,
     output |-> <<Element("reply", <<"nope", " length", "">>,
                          <<[name |-> "nope", value |-> "bogus"]>>,
                          <<>>)>>]

\* A document whose output element names only an id that is not registered
UnknownRail ==
    [well_formed |-> TRUE,
     output |-> <<Element("reply", <<"nope">>, <<>>, <<>>)>>]

\* The rules documents: the ones above and a document without an output
\* element
RailStrings ==
    {MalformedRail, FieldRail, OutputRail, MixedRail, UnknownRail,
     [well_formed |-> TRUE, output |-> <<>>]}

\* str.strip() on the parts the documents hold
strip(part) ==
    CASE part = " length" -> "length"
      [] OTHER -> part

\* split_on(text, ";"): the stripped parts that are not empty
split_on(parts) ==
    LET kept == SelectSeq(parts, LAMBDA part : strip(part) # "") IN
    [i \in 1..Len(kept) |-> strip(kept[i])]

\* str.replace("/", "_") on the aliases of the model
replace_slash(alias) ==
    CASE alias = "hub/length" -> "hub_length"
      [] OTHER -> alias

\* parse_on_fail_handlers(element): the on-fail-<name> attributes whose value
\* is an OnFailAction value; the others are dropped with a warning
parse_on_fail_handlers(element) ==
    SelectSeq(element.on_fail, LAMBDA a : a.value \in OnFailAction)

\* The warnings parse_on_fail_handlers logs: one for every on-fail-<name>
\* attribute whose value is no OnFailAction value
parse_on_fail_handlers_warnings(element) ==
    LET invalid == SelectSeq(element.on_fail,
                             LAMBDA a : a.value \notin OnFailAction)
    IN  [i \in 1..Len(invalid) |-> [text |-> "Invalid on-fail action",
                                     subject |-> invalid[i].value]]

\* The warnings get_validators_from_element logs: those of
\* parse_on_fail_handlers; an id that is not registered is passed over
\* without a message
get_validators_from_element_warnings(element) ==
    parse_on_fail_handlers_warnings(element)

\* on_fail_handlers.get(name, OnFailAction.NOOP)
on_fail_handlers_get(on_fail_handlers, name) ==
    IF \E i \in 1..Len(on_fail_handlers) : on_fail_handlers[i].name = name
    THEN LET i == CHOOSE i \in 1..Len(on_fail_handlers) :
                      on_fail_handlers[i].name = name
         IN  on_fail_handlers[i].value
    ELSE "noop"

\* get_validators_from_element(element): a (class, on_fail) pair for every
\* validator id of the element that is registered, in declared order
get_validators_from_element(element, reg, aliases) ==
    LET validator_specs == split_on(element.validators)
        on_fail_handlers == parse_on_fail_handlers(element)
        known == SelectSeq(validator_specs,
                           LAMBDA v_spec : get_validator(reg, v_spec) # NoneVal)
    IN  [i \in 1..Len(known) |->
            LET validator_cls == get_validator(reg, known[i]) IN
            [cls |-> validator_cls,
             on_fail |-> on_fail_handlers_get(on_fail_handlers,
                             replace_slash(aliases[validator_cls]))]]

\* The empty dictionary a ProcessedSchema starts with
EmptySchema == [type |-> NoneVal, name |-> NoneVal]

\* _element_to_schema_dict(element) for the output element: its tag as type
\* and its attributes other than validators and on-fail-*; the children of
\* an element whose tag is neither object nor array are not visited
_element_to_schema_dict(element) == [type |-> "output", name |-> element.name]

\* ProcessedSchema(schema=schema_dict): no references, no instances
ProcessedSchema(schema_dict) ==
    [schema |-> schema_dict, validators |-> <<>>,
     validator_map |-> [t \in Targets |-> <<>>]]

\* ProcessedSchema.add_validator(validator, json_path, on_fail=on_fail)
add_validator(plan, validator, json_path, on_fail) ==
    IF json_path = Absent
    THEN [raised |-> MissingArgument, plan |-> plan]
    ELSE [raised |-> NoException,
          plan |-> [plan EXCEPT
              !.validators = Append(@,
                  [id |-> validator.cls, on |-> json_path,
                   on_fail |-> IF on_fail = NoneVal THEN "noop" ELSE on_fail]),
              !.validator_map[json_path] = Append(@, validator)]]

\* The loop of rail_string_to_schema over the (class, on_fail) pairs:
\* validator_cls() needs the .wallrc settings (require_rc defaults to True),
\* and add_validator is called with on="output" and without json_path.  The
\* first exception ends the loop.
RECURSIVE add_validators(_, _, _)
add_validators(plan, pairs, rc) ==
    IF pairs = <<>> THEN [raised |-> NoException, plan |-> plan]
    ELSE IF ~rc
    THEN [raised |-> ValueError("No .wallrc file found."),
          plan |-> plan]
    ELSE LET validator == Validator_init(Head(pairs).cls,
                                         [type |-> "none", v |-> NoneVal])
             added == add_validator(plan, validator, Absent, Head(pairs).on_fail)
         IN  IF added.raised # NoException THEN added
             ELSE add_validators(added.plan, Tail(pairs), rc)

\* rail_string_to_schema with the syntax error swallowed
rail_string_to_schema_lenient(rail_string, rc, reg, aliases) ==
    [raised |-> NoException, plan |-> <<ProcessedSchema(EmptySchema)>>,
     warnings |-> <<>>]

\* rail_string_to_schema(rail_string): the exception it raises or the plan
\* it returns, and the warnings it logged.  rc tells whether settings.rc was
\* loaded from ~/.wallrc.
rail_string_to_schema(rail_string, rc, reg, aliases) ==
    IF ~rail_string.well_formed
    THEN [raised |-> ValueError("Invalid RAIL specification"), plan |-> <<>>,
          warnings |-> <<>>]
    ELSE IF rail_string.output = <<>>
    THEN [raised |-> NoException, plan |-> <<ProcessedSchema(EmptySchema)>>,
          warnings |-> <<>>]
    ELSE LET output_element == rail_string.output[1]
             pairs == get_validators_from_element(output_element, reg, aliases)
             warnings == get_validators_from_element_warnings(output_element)
             added == add_validators(
                          ProcessedSchema(_element_to_schema_dict(output_element)),
                          pairs, rc)
         IN  IF added.raised # NoException
             THEN [raised |-> added.raised, plan |-> <<>>,
                   warnings |-> warnings]
             ELSE [raised |-> NoException, plan |-> <<added.plan>>,
                   warnings |-> warnings]

\* WallGuard.for_rail_string(rail_string): the exception of the compilation
\* or a new guard that holds the plan
for_rail_string(rail_string, rc, reg, aliases) ==
    LET schema == rail_string_to_schema(rail_string, rc, reg, aliases) IN
    IF schema.raised # NoException
    THEN [raised |-> schema.raised, guard |-> <<>>,
          warnings |-> schema.warnings]
    ELSE [raised |-> NoException,
          guard |-> <<[validators |-> <<>>,
                       validator_map |-> [t \in Targets |-> <<>>],
                       num_reasks |-> 0,
                       processed_schema |-> schema.plan]>>,
          warnings |-> schema.warnings]

----------------------------------------------------------------------------
(* Validations in progress *)

\* The validations that can be in progress at the same time
TaskIds == 1..MaxTasks

\* A task that is not inside validate or async_validate: no candidate, no
\* results, no outcome.  The locals of a call are llm_output and
\* validation_results (error_spans is a function of the results); its
\* output_validators is the list object of validator_map["output"] itself,
\* so it is read from the guard at every step.
IdleTask ==
    [kind |-> "idle", llm_output |-> NoneVal, validation_results |-> <<>>,
     outcome |-> <<>>]

----------------------------------------------------------------------------
(* Inputs of the operations *)

\* The on_fail element of a use() tuple that has only (class, kwargs)
NoOnFail == [type |-> "absent", v |-> NoneVal]

EnumArg(a) == [type |-> "enum", v |-> a]

\* The (validator class, kwargs, on_fail) tuples use() is called with for
\* the output target
UseSpecs ==
    {[cls |-> "test_length", on_fail |-> a] :
        a \in {NoOnFail, EnumArg("filter"), EnumArg("reask")}}
    \cup {[cls |-> "test_failer", on_fail |-> a] :
        a \in {EnumArg("fix"), EnumArg("noop"),
               [type |-> "callable", v |-> "redact"]}}
    \cup {[cls |-> "healthcare_completeness_fix", on_fail |-> a] :
        a \in {EnumArg("fix"), EnumArg("fix_reask")}}

\* The validators argument of WallGuard(...): left out, or a list of
\* validator instances
ConstructorValidators ==
    {<<>>, <<Validator_init("test_length", EnumArg("exception"))>>}

\* The tuples use() is called with for the input target
InputUseSpecs == {[cls |-> "test_failer", on_fail |-> NoOnFail]}

\* The keyword arguments __call__ is invoked with: an output to validate when
\* there is no model caller, possibly a prompt when there is one
CallArgs ==
    {[llm_api |-> NoneVal, kwargs |-> [prompt |-> Absent, output |-> o]] :
        o \in {Absent} \cup Values}
    \cup {[llm_api |-> a, kwargs |-> [prompt |-> p, output |-> Absent]] :
        a \in Stubs, p \in {Absent, "Question"}}

\* The fail results on_fail_handler is called with directly
FailResults ==
    {FailResult(m, f) : m \in {"", "Always fails for testing"},
                        f \in {NoneVal, "Hello World"}}

NoOp == [name |-> "init", llm_output |-> NoneVal, llm_api |-> NoneVal,
         kwargs |-> [prompt |-> Absent, output |-> Absent],
         rail_string |-> NoneVal, validator |-> 0, metadata |-> NoneVal]

----------------------------------------------------------------------------
(* Operations *)

\* WallGuard.__init__: self.validators = validators or [] and
\* self.validator_map = {}
Init ==
    /\ validators \in ConstructorValidators
    /\ validator_map = [t \in Targets |-> <<>>]
    /\ num_reasks \in 0..MaxReasks
    /\ op = NoOp
    /\ outcome = <<>>
    /\ raised = NoException
    /\ api_calls = <<>>
    /\ sleeps = <<>>
    /\ history = <<>>
    /\ logged = <<>>
    /\ tasks = [t \in TaskIds |-> IdleTask]
    /\ resolutions = <<>>
    /\ ran = <<>>
    /\ service_results = <<>>
    /\ registry = EmptyRegistry
    /\ class_alias = [cls \in ValidatorClasses |-> ""]
    /\ registrations = <<>>
    /\ lookup = NoLookup
    /\ processed_schema = <<>>
    /\ compiled = <<>>

\* WallGuard.use with a tuple specification
Use(spec, on) ==
    /\ Len(validators) < MaxValidators
    /\ LET on_fail == IF spec.on_fail = NoOnFail
                      THEN EnumArg("exception") ELSE spec.on_fail
           validator_instance == Validator_init(spec.cls, on_fail)
       IN  /\ validators' = Append(validators, validator_instance)
           /\ validator_map' =
                  [validator_map EXCEPT ![on] = Append(@, validator_instance)]
    /\ op' = [NoOp EXCEPT !.name = "use"]
    /\ outcome' = <<>>
    /\ raised' = NoException
    /\ api_calls' = <<>>
    /\ sleeps' = <<>>
    /\ history' = <<>>
    /\ logged' = <<>>
    /\ UNCHANGED tasks
    /\ resolutions' = <<>>
    /\ ran' = <<>>
    /\ service_results' = <<>>
    /\ lookup' = NoLookup
    /\ compiled' = <<>>
    /\ UNCHANGED <<registry, class_alias, registrations, processed_schema>>
    /\ UNCHANGED num_reasks

\* WallGuard.configure(num_reasks=n)
Configure(n) ==
    /\ num_reasks' = n
    /\ op' = [NoOp EXCEPT !.name = "configure"]
    /\ outcome' = <<>>
    /\ raised' = NoException
    /\ api_calls' = <<>>
    /\ sleeps' = <<>>
    /\ history' = <<>>
    /\ logged' = <<>>
    /\ UNCHANGED tasks
    /\ resolutions' = <<>>
    /\ ran' = <<>>
    /\ service_results' = <<>>
    /\ lookup' = NoLookup
    /\ compiled' = <<>>
    /\ UNCHANGED <<registry, class_alias, registrations, processed_schema>>
    /\ UNCHANGED <<validators, validator_map>>

\* guard.validate(llm_output)
Validate(llm_output) ==
    LET v == validate(validator_map, llm_output) IN
    /\ op' = [NoOp EXCEPT !.name = "validate", !.llm_output = llm_output]
    /\ outcome' = <<v.outcome>>
    /\ raised' = v.raised
    /\ resolutions' = v.resolutions
    /\ ran' = v.ran
    /\ service_results' = <<>>
    /\ lookup' = NoLookup
    /\ compiled' = <<>>
    /\ UNCHANGED <<registry, class_alias, registrations, processed_schema>>
    /\ api_calls' = <<>>
    /\ sleeps' = <<>>
    /\ history' = <<>>
    /\ logged' = <<>>
    /\ UNCHANGED tasks
    /\ UNCHANGED <<validators, validator_map, num_reasks>>

\* await guard.async_validate(llm_output)
AsyncValidate(llm_output) ==
    LET v == async_validate(validator_map, llm_output) IN
    /\ op' = [NoOp EXCEPT !.name = "async_validate", !.llm_output = llm_output]
    /\ outcome' = <<v.outcome>>
    /\ raised' = v.raised
    /\ resolutions' = v.resolutions
    /\ ran' = v.ran
    /\ service_results' = <<>>
    /\ lookup' = NoLookup
    /\ compiled' = <<>>
    /\ UNCHANGED <<registry, class_alias, registrations, processed_schema>>
    /\ api_calls' = <<>>
    /\ sleeps' = <<>>
    /\ history' = <<>>
    /\ logged' = <<>>
    /\ UNCHANGED tasks
    /\ UNCHANGED <<validators, validator_map, num_reasks>>

\* guard(llm_api, **kwargs)
Call(llm_api, kwargs) ==
    LET c == guard_call(validator_map, num_reasks, llm_api, kwargs) IN
    /\ op' = [NoOp EXCEPT !.name = "call", !.llm_api = llm_api,
                          !.kwargs = kwargs]
    /\ outcome' = c.outcome
    /\ raised' = c.raised
    /\ resolutions' = c.resolutions
    /\ ran' = c.ran
    /\ service_results' = <<>>
    /\ lookup' = NoLookup
    /\ compiled' = <<>>
    /\ UNCHANGED <<registry, class_alias, registrations, processed_schema>>
    /\ api_calls' = c.api_calls
    /\ sleeps' = c.sleeps
    /\ history' = c.history
    /\ logged' = <<>>
    /\ UNCHANGED tasks
    /\ UNCHANGED <<validators, validator_map, num_reasks>>

\* await async_guard(llm_api, **kwargs)
AsyncCall(llm_api, kwargs) ==
    LET c == async_guard_call(validator_map, num_reasks, llm_api, kwargs) IN
    /\ op' = [NoOp EXCEPT !.name = "async_call", !.llm_api = llm_api,
                          !.kwargs = kwargs]
    /\ outcome' = c.outcome
    /\ raised' = c.raised
    /\ resolutions' = c.resolutions
    /\ ran' = c.ran
    /\ service_results' = <<>>
    /\ lookup' = NoLookup
    /\ compiled' = <<>>
    /\ UNCHANGED <<registry, class_alias, registrations, processed_schema>>
    /\ api_calls' = c.api_calls
    /\ sleeps' = c.sleeps
    /\ history' = c.history
    /\ logged' = <<>>
    /\ UNCHANGED tasks
    /\ UNCHANGED <<validators, validator_map, num_reasks>>

\* validators[i].on_fail_handler(value, fail_result), called by the client
OnFailHandler(i, value, fail_result) ==
    LET r == on_fail_handler(validators[i], value, fail_result) IN
    /\ op' = [NoOp EXCEPT !.name = "on_fail_handler", !.llm_output = value]
    /\ outcome' = <<>>
    /\ raised' = IF r.kind = "raise" THEN r.exc ELSE NoException
    /\ resolutions' = <<[validator |-> validators[i], value |-> value,
                         fail_result |-> fail_result, result |-> r]>>
    /\ ran' = <<>>
    /\ service_results' = <<>>
    /\ lookup' = NoLookup
    /\ compiled' = <<>>
    /\ UNCHANGED <<registry, class_alias, registrations, processed_schema>>
    /\ api_calls' = <<>>
    /\ sleeps' = <<>>
    /\ history' = <<>>
    /\ logged' = <<>>
    /\ UNCHANGED tasks
    /\ UNCHANGED <<validators, validator_map, num_reasks>>

\* SequentialValidatorService().validate(value, guard.validators, {}),
\* called by the client
SequentialService(value) ==
    LET r == SequentialValidatorService_validate(value, validators) IN
    /\ op' = [NoOp EXCEPT !.name = "sequential_service", !.llm_output = value]
    /\ service_results' = r.results
    /\ lookup' = NoLookup
    /\ compiled' = <<>>
    /\ UNCHANGED <<registry, class_alias, registrations, processed_schema>>
    /\ ran' = r.ran
    /\ outcome' = <<>>
    /\ raised' = NoException
    /\ resolutions' = <<>>
    /\ api_calls' = <<>>
    /\ sleeps' = <<>>
    /\ history' = <<>>
    /\ logged' = <<>>
    /\ UNCHANGED tasks
    /\ UNCHANGED <<validators, validator_map, num_reasks>>

\* await AsyncValidatorService().validate(value, guard.validators, {}),
\* called by the client
AsyncService(value, order) ==
    LET r == AsyncValidatorService_validate(value, validators, order) IN
    /\ op' = [NoOp EXCEPT !.name = "async_service", !.llm_output = value]
    /\ service_results' = r.results
    /\ lookup' = NoLookup
    /\ compiled' = <<>>
    /\ UNCHANGED <<registry, class_alias, registrations, processed_schema>>
    /\ ran' = r.ran
    /\ outcome' = <<>>
    /\ raised' = NoException
    /\ resolutions' = <<>>
    /\ api_calls' = <<>>
    /\ sleeps' = <<>>
    /\ history' = <<>>
    /\ logged' = <<>>
    /\ UNCHANGED tasks
    /\ UNCHANGED <<validators, validator_map, num_reasks>>

Next ==
    \/ \E spec \in UseSpecs : Use(spec, "output")
    \/ \E spec \in InputUseSpecs : Use(spec, "input")
    \/ \E n \in 0..MaxReasks : Configure(n)
    \/ \E llm_output \in Values : Validate(llm_output)
    \/ \E llm_output \in Values : AsyncValidate(llm_output)
    \/ \E a \in CallArgs : Call(a.llm_api, a.kwargs)
    \/ \E a \in CallArgs : AsyncCall(a.llm_api, a.kwargs)
    \/ \E value \in Values : SequentialService(value)
    \/ \E value \in Values, order \in CompletionOrders(Len(validators)) :
           AsyncService(value, order)

Spec == Init /\ [][Next]_vars

----------------------------------------------------------------------------
(* The resolver on its own: a validator is constructed with any on_fail    *)
(* argument and the client calls its on_fail_handler on any value and fail *)
(* result.                                                                 *)

InitResolver ==
    /\ \E cls \in ValidatorClasses, on_fail \in OnFailArgs :
           validators = <<Validator_init(cls, on_fail)>>
    /\ validator_map = [t \in Targets |-> <<>>]
    /\ num_reasks = 0
    /\ op = NoOp
    /\ outcome = <<>>
    /\ raised = NoException
    /\ api_calls = <<>>
    /\ sleeps = <<>>
    /\ history = <<>>
    /\ logged = <<>>
    /\ tasks = [t \in TaskIds |-> IdleTask]
    /\ resolutions = <<>>
    /\ ran = <<>>
    /\ service_results = <<>>
    /\ registry = EmptyRegistry
    /\ class_alias = [cls \in ValidatorClasses |-> ""]
    /\ registrations = <<>>
    /\ lookup = NoLookup
    /\ processed_schema = <<>>
    /\ compiled = <<>>

NextResolver ==
    \E value \in Values, fail_result \in FailResults :
        OnFailHandler(1, value, fail_result)

SpecResolver == InitResolver /\ [][NextResolver]_vars

----------------------------------------------------------------------------
(* The registry and the rules documents: validator classes are registered, *)
(* looked up, and named by the rules documents a guard is built from.      *)

\* The rail_alias arguments register_validator is called with
RegisterAliases == {NoneVal, "length", "hub/length"}

\* The classes that are registered
RegisterClasses == {"test_length", "test_failer"}

\* @register_validator(rail_alias) applied to a validator class
Register(rail_alias, cls) ==
    /\ Len(registrations) < MaxRegistrations
    /\ LET r == register_validator(registry, class_alias, rail_alias, cls) IN
       /\ registry' = r.registry
       /\ class_alias' = r.class_alias
       /\ registrations' = Append(registrations,
                                  [alias |-> r.alias, cls |-> cls])
    /\ op' = [NoOp EXCEPT !.name = "register_validator"]
    /\ lookup' = NoLookup
    /\ compiled' = <<>>
    /\ outcome' = <<>>
    /\ raised' = NoException
    /\ resolutions' = <<>>
    /\ ran' = <<>>
    /\ service_results' = <<>>
    /\ api_calls' = <<>>
    /\ sleeps' = <<>>
    /\ history' = <<>>
    /\ logged' = <<>>
    /\ UNCHANGED tasks
    /\ UNCHANGED <<validators, validator_map, num_reasks, processed_schema>>

\* get_validator(validator_id)
GetValidator(validator_id) ==
    /\ lookup' = [id |-> validator_id,
                  cls |-> get_validator(registry, validator_id)]
    /\ op' = [NoOp EXCEPT !.name = "get_validator"]
    /\ compiled' = <<>>
    /\ outcome' = <<>>
    /\ raised' = NoException
    /\ resolutions' = <<>>
    /\ ran' = <<>>
    /\ service_results' = <<>>
    /\ api_calls' = <<>>
    /\ sleeps' = <<>>
    /\ history' = <<>>
    /\ logged' = <<>>
    /\ UNCHANGED tasks
    /\ UNCHANGED <<validators, validator_map, num_reasks, processed_schema,
                   registry, class_alias, registrations>>

\* rail_string_to_schema(rail_string), called by the client
RailStringToSchema(rail_string, rc) ==
    LET c == rail_string_to_schema(rail_string, rc, registry, class_alias) IN
    /\ compiled' = c.plan
    /\ raised' = c.raised
    /\ op' = [NoOp EXCEPT !.name = "rail_string_to_schema",
                          !.rail_string = rail_string]
    /\ lookup' = NoLookup
    /\ outcome' = <<>>
    /\ resolutions' = <<>>
    /\ ran' = <<>>
    /\ service_results' = <<>>
    /\ api_calls' = <<>>
    /\ sleeps' = <<>>
    /\ history' = <<>>
    /\ logged' = c.warnings
    /\ UNCHANGED tasks
    /\ UNCHANGED <<validators, validator_map, num_reasks, processed_schema,
                   registry, class_alias, registrations>>

\* guard = WallGuard.for_rail_string(rail_string): the guard of the program
\* becomes the new guard unless the compilation raises
ForRailString(rail_string, rc) ==
    LET c == for_rail_string(rail_string, rc, registry, class_alias) IN
    /\ IF c.guard = <<>>
       THEN UNCHANGED <<validators, validator_map, num_reasks,
                        processed_schema>>
       ELSE /\ validators' = c.guard[1].validators
            /\ validator_map' = c.guard[1].validator_map
            /\ num_reasks' = c.guard[1].num_reasks
            /\ processed_schema' = c.guard[1].processed_schema
    /\ raised' = c.raised
    /\ op' = [NoOp EXCEPT !.name = "for_rail_string",
                          !.rail_string = rail_string]
    /\ lookup' = NoLookup
    /\ compiled' = <<>>
    /\ outcome' = <<>>
    /\ resolutions' = <<>>
    /\ ran' = <<>>
    /\ service_results' = <<>>
    /\ api_calls' = <<>>
    /\ sleeps' = <<>>
    /\ history' = <<>>
    /\ logged' = c.warnings
    /\ UNCHANGED tasks
    /\ UNCHANGED <<registry, class_alias, registrations>>

\* The on_fail arguments the client passes to add_validator
AddOnFails == {NoneVal, "exception"}

\* guard.processed_schema.add_validator(validator_cls(), "output",
\* on_fail=on_fail), called by the client on the plan of a guard that was
\* built from a rules document: the call rail_string_to_schema makes, with
\* the path given as json_path
AddValidator(cls, on_fail) ==
    /\ processed_schema # <<>>
    /\ Len(processed_schema[1].validators) < MaxValidators
    /\ LET added == add_validator(processed_schema[1],
                         Validator_init(cls, [type |-> "none", v |-> NoneVal]),
                         "output", on_fail)
       IN  /\ processed_schema' = <<added.plan>>
           /\ raised' = added.raised
    /\ op' = [NoOp EXCEPT !.name = "add_validator"]
    /\ lookup' = NoLookup
    /\ compiled' = <<>>
    /\ outcome' = <<>>
    /\ resolutions' = <<>>
    /\ ran' = <<>>
    /\ service_results' = <<>>
    /\ api_calls' = <<>>
    /\ sleeps' = <<>>
    /\ history' = <<>>
    /\ logged' = <<>>
    /\ UNCHANGED tasks
    /\ UNCHANGED <<validators, validator_map, num_reasks,
                   registry, class_alias, registrations>>

NextRail ==
    \/ \E rail_alias \in RegisterAliases, cls \in RegisterClasses :
           Register(rail_alias, cls)
    \/ \E on_fail \in AddOnFails : AddValidator("test_length", on_fail)
    \/ \E validator_id \in Ids : GetValidator(validator_id)
    \/ \E rail_string \in RailStrings, rc \in BOOLEAN :
           RailStringToSchema(rail_string, rc)
    \/ \E rail_string \in RailStrings, rc \in BOOLEAN :
           ForRailString(rail_string, rc)
    \/ \E llm_output \in Values : Validate(llm_output)

\* WallGuard() with the default num_reasks, an empty registry
InitRail ==
    /\ Init
    /\ num_reasks = 0

SpecRail == InitRail /\ [][NextRail]_vars

----------------------------------------------------------------------------
(* Validators that raise: a guard is given validators whose _validate or   *)
(* _async_validate raises, and the client also calls the validators of the *)
(* guard directly, with and without metadata.                              *)

\* The tuples use() is called with
CrashUseSpecs ==
    {[cls |-> "test_crasher", on_fail |-> EnumArg("noop")],
     [cls |-> "test_silent_crasher", on_fail |-> NoOnFail],
     [cls |-> "test_async_crasher", on_fail |-> EnumArg("noop")],
     [cls |-> "test_length", on_fail |-> EnumArg("filter")]}

\* The metadata arguments: left out, empty, and a dictionary with an entry
Metadatas == {NoneVal, EmptyDict, "{request_id: 7}"}

\* guard.validators[i].validate(value, metadata), called by the client
ValidatorValidate(i, value, metadata) ==
    /\ op' = [NoOp EXCEPT !.name = "validator_validate", !.llm_output = value,
                          !.validator = i, !.metadata = metadata]
    /\ service_results' =
           <<Validator_validate_metadata(validators[i], value, metadata)>>
    /\ ran' = <<i>>
    /\ raised' = NoException
    /\ outcome' = <<>>
    /\ resolutions' = <<>>
    /\ api_calls' = <<>>
    /\ sleeps' = <<>>
    /\ history' = <<>>
    /\ logged' = <<>>
    /\ lookup' = NoLookup
    /\ compiled' = <<>>
    /\ UNCHANGED <<validators, validator_map, num_reasks, registry,
                   class_alias, registrations, processed_schema, tasks>>

\* await guard.validators[i].async_validate(value, metadata)
ValidatorAsyncValidate(i, value, metadata) ==
    /\ op' = [NoOp EXCEPT !.name = "validator_async_validate",
                          !.llm_output = value,
                          !.validator = i, !.metadata = metadata]
    /\ service_results' =
           <<Validator_async_validate_metadata(validators[i], value, metadata)>>
    /\ ran' = <<i>>
    /\ raised' = NoException
    /\ outcome' = <<>>
    /\ resolutions' = <<>>
    /\ api_calls' = <<>>
    /\ sleeps' = <<>>
    /\ history' = <<>>
    /\ logged' = <<>>
    /\ lookup' = NoLookup
    /\ compiled' = <<>>
    /\ UNCHANGED <<validators, validator_map, num_reasks, registry,
                   class_alias, registrations, processed_schema, tasks>>

\* WallGuard() with the default num_reasks
InitCrash ==
    /\ Init
    /\ validators = <<>>
    /\ num_reasks = 0

NextCrash ==
    \/ \E spec \in CrashUseSpecs : Use(spec, "output")
    \/ \E llm_output \in Values : Validate(llm_output)
    \/ \E llm_output \in Values : AsyncValidate(llm_output)
    \/ \E value \in Values : SequentialService(value)
    \/ \E i \in 1..Len(validators), value \in Values, metadata \in Metadatas :
           ValidatorValidate(i, value, metadata)
    \/ \E i \in 1..Len(validators), value \in Values, metadata \in Metadatas :
           ValidatorAsyncValidate(i, value, metadata)

SpecCrash == InitCrash /\ [][NextCrash]_vars

----------------------------------------------------------------------------
(* Concurrent validations: threads that call validate and coroutines that  *)
(* await async_validate on one guard.  A call is split at every validator  *)
(* it runs; the steps of different calls interleave freely.  The guard is  *)
(* set up with use() while no validation is in progress.                   *)

\* The tuples use() is called with
ConcurrentUseSpecs ==
    {[cls |-> "test_length", on_fail |-> NoOnFail],
     [cls |-> "test_failer", on_fail |-> EnumArg("noop")],
     [cls |-> "test_async_crasher", on_fail |-> EnumArg("noop")]}

\* The observables of the most recent operation after a step of a task
TaskObservables(name) ==
    /\ op' = [NoOp EXCEPT !.name = name]
    /\ outcome' = <<>>
    /\ raised' = NoException
    /\ api_calls' = <<>>
    /\ sleeps' = <<>>
    /\ history' = <<>>
    /\ logged' = <<>>
    /\ resolutions' = <<>>
    /\ ran' = <<>>
    /\ service_results' = <<>>
    /\ lookup' = NoLookup
    /\ compiled' = <<>>

\* use() between validations
UseWhenIdle(spec) ==
    /\ \A t \in TaskIds : tasks[t].kind = "idle"
    /\ Use(spec, "output")

\* A task enters validate or async_validate: output_validators is bound to
\* the list of the guard, validation_results and error_spans start empty
TaskStart(t, kind, llm_output) ==
    /\ tasks[t].kind = "idle"
    /\ tasks' = [tasks EXCEPT ![t] = [IdleTask EXCEPT !.kind = kind,
                                                      !.llm_output = llm_output]]
    /\ TaskObservables("task_start")
    /\ UNCHANGED <<validators, validator_map, num_reasks, registry,
                   class_alias, registrations, processed_schema>>

\* One round of the loop that takes its validator off the shared list
TaskStep_consuming(t) ==
    /\ tasks[t].kind \in {"validate", "async_validate"}
    /\ tasks[t].outcome = <<>>
    /\ map_get(validator_map, "output") # <<>>
    /\ LET validator == Head(map_get(validator_map, "output"))
           result == IF tasks[t].kind = "validate"
                     THEN Validator_validate(validator, tasks[t].llm_output)
                     ELSE Validator_async_validate(validator,
                                                   tasks[t].llm_output)
       IN  tasks' = [tasks EXCEPT ![t].validation_results = Append(@, result)]
    /\ validator_map' = [validator_map EXCEPT !["output"] = Tail(@)]
    /\ TaskObservables("task_step")
    /\ UNCHANGED <<validators, num_reasks, registry,
                   class_alias, registrations, processed_schema>>

\* One round of the loop of validate or async_validate: the next validator
\* of the list is called with the candidate and its result is appended
TaskStep(t) ==
    /\ tasks[t].kind \in {"validate", "async_validate"}
    /\ tasks[t].outcome = <<>>
    /\ Len(tasks[t].validation_results) < Len(map_get(validator_map, "output"))
    /\ LET validator == map_get(validator_map, "output")
                            [Len(tasks[t].validation_results) + 1]
           result == IF tasks[t].kind = "validate"
                     THEN Validator_validate(validator, tasks[t].llm_output)
                     ELSE Validator_async_validate(validator,
                                                   tasks[t].llm_output)
       IN  tasks' = [tasks EXCEPT ![t].validation_results = Append(@, result)]
    /\ TaskObservables("task_step")
    /\ UNCHANGED <<validators, validator_map, num_reasks, registry,
                   class_alias, registrations, processed_schema>>

\* The loop is over: the call builds its ValidationOutcome and returns it
TaskReturn(t) ==
    /\ tasks[t].kind \in {"validate", "async_validate"}
    /\ tasks[t].outcome = <<>>
    /\ Len(tasks[t].validation_results) >= Len(map_get(validator_map, "output"))
    /\ tasks' = [tasks EXCEPT ![t].outcome =
                     <<ValidationOutcome(tasks[t].llm_output,
                                         tasks[t].validation_results)>>]
    /\ TaskObservables("task_return")
    /\ UNCHANGED <<validators, validator_map, num_reasks, registry,
                   class_alias, registrations, processed_schema>>

\* The caller has taken the outcome; the thread or coroutine is free again
TaskDone(t) ==
    /\ tasks[t].outcome # <<>>
    /\ tasks' = [tasks EXCEPT ![t] = IdleTask]
    /\ TaskObservables("task_done")
    /\ UNCHANGED <<validators, validator_map, num_reasks, registry,
                   class_alias, registrations, processed_schema>>

NextConcurrent ==
    \/ \E spec \in ConcurrentUseSpecs : UseWhenIdle(spec)
    \/ \E t \in TaskIds, kind \in {"validate", "async_validate"},
          llm_output \in Values : TaskStart(t, kind, llm_output)
    \/ \E t \in TaskIds : TaskStep(t)
    \/ \E t \in TaskIds : TaskReturn(t)
    \/ \E t \in TaskIds : TaskDone(t)

\* WallGuard() with no validators and the default num_reasks
InitConcurrent ==
    /\ Init
    /\ validators = <<>>
    /\ num_reasks = 0

SpecConcurrent == InitConcurrent /\ [][NextConcurrent]_vars

----------------------------------------------------------------------------
(* Properties *)

\* The validators validate() runs
OutputValidators == map_get(validator_map, "output")

\* The guard was invoked with a model caller and no prompt keyword, and a
\* single length validator bound with on_fail = reask
ReaskScenario(llm_api) ==
    /\ op.name = "call"
    /\ op.llm_api = llm_api
    /\ op.kwargs.prompt = Absent
    /\ num_reasks = 3
    /\ OutputValidators = <<Validator_init("test_length", EnumArg("reask"))>>

\* C1: one invocation of the guard with a model caller, sync or async,
\* invokes the model caller at most num_reasks + 1 times.
C1_RetryBound ==
    op.name \in {"call", "async_call"} => Len(api_calls) <= num_reasks + 1

\* An invocation with num_reasks = 0 whose output failed validation made
\* exactly one model-caller invocation
C1_Witness ==
    /\ op.name = "call"
    /\ num_reasks = 0
    /\ Len(api_calls) = 1
    /\ outcome # <<>>
    /\ ~outcome[1].validation_passed

\* C2: with on_fail = reask, num_reasks = 3 and a model caller that fails
\* validation twice and then passes, the invocation ends with
\* validation_passed = true after exactly 3 model-caller invocations and
\* exactly 2 backoff sleeps.
C2_ReaskUntilPass ==
    ReaskScenario("fails_twice") =>
        /\ outcome # <<>>
        /\ outcome[1].validation_passed
        /\ Len(api_calls) = 3
        /\ Len(sleeps) = 2

\* C3: with on_fail = reask, num_reasks = 3 and a model caller that never
\* passes, the invocation makes exactly 4 model-caller invocations and ends
\* with validation_passed = false and the last failure's message surfaced.
C3_ReaskExhausted ==
    ReaskScenario("never_passes") =>
        /\ Len(api_calls) = 4
        /\ outcome # <<>>
        /\ ~outcome[1].validation_passed
        /\ LET results == outcome[1].metadata.validation_results IN
           /\ results # <<>>
           /\ is_fail(results[Len(results)])
           /\ results[Len(results)].error_message =
                  LengthValidator_validate(StubOutput("never_passes", 4)).error_message

\* C4: when an output validator bound with on_fail = exception fails,
\* validate raises an abort error instead of returning an outcome.
C4_ExceptionAborts ==
    \A i \in 1..Len(OutputValidators) :
        ( /\ op.name = "validate"
          /\ OutputValidators[i].on_fail_descriptor = "exception"
          /\ is_fail(Validator_validate(OutputValidators[i], op.llm_output)) )
        => /\ raised.type = "ValidationError"
           /\ outcome = <<>>

\* C5: if every output validator passes the candidate (also when none is
\* bound), validate returns validation_passed = true with validated_output
\* and raw_output both equal to the candidate.
C5_AllPassKeepsCandidate ==
    ( /\ op.name = "validate"
      /\ \A i \in 1..Len(OutputValidators) :
             is_pass(Validator_validate(OutputValidators[i], op.llm_output)) )
    => /\ raised = NoException
       /\ outcome # <<>>
       /\ outcome[1].validation_passed
       /\ outcome[1].validated_output = op.llm_output
       /\ outcome[1].raw_output = op.llm_output

\* A bound length validator passed an in-range candidate
C5_Witness ==
    /\ op.name = "validate"
    /\ op.llm_output = "Hello World"
    /\ OutputValidators = <<Validator_init("test_length", EnumArg("exception"))>>
    /\ outcome # <<>>
    /\ outcome[1].validated_output = "Hello World"

\* C6: when a validator bound with on_fail = filter fails, validate returns
\* an outcome with validation_passed = false, validated_output None and
\* raw_output equal to the candidate, and raises nothing.
C6_FilterDropsOutput ==
    ( /\ op.name = "validate"
      /\ \E i \in 1..Len(OutputValidators) :
             /\ OutputValidators[i].on_fail_descriptor = "filter"
             /\ is_fail(Validator_validate(OutputValidators[i], op.llm_output)) )
    => /\ raised = NoException
       /\ outcome # <<>>
       /\ ~outcome[1].validation_passed
       /\ outcome[1].validated_output = NoneVal
       /\ outcome[1].raw_output = op.llm_output

\* The length validator bound with filter failed the too-short candidate
C6_Witness ==
    /\ op.name = "validate"
    /\ op.llm_output = "Hi"
    /\ OutputValidators = <<Validator_init("test_length", EnumArg("filter"))>>
    /\ outcome # <<>>
    /\ outcome[1].validated_output = NoneVal

\* C7: when a validator bound with on_fail = fix fails with a fix_value,
\* the outcome's validated_output is that fix_value and validation_passed
\* is true.
C7_FixApplied ==
    ( /\ op.name = "validate"
      /\ Len(OutputValidators) = 1
      /\ OutputValidators[1].on_fail_descriptor = "fix"
      /\ is_fail(Validator_validate(OutputValidators[1], op.llm_output))
      /\ Validator_validate(OutputValidators[1], op.llm_output).fix_value
             # NoneVal )
    => /\ outcome # <<>>
       /\ outcome[1].validation_passed
       /\ outcome[1].validated_output =
              Validator_validate(OutputValidators[1], op.llm_output).fix_value

\* C8: the resolution of a Fail without fix_value under on_fail = fix is an
\* abort: on_fail_handler raises.
C8_FixWithoutValueAborts ==
    \A j \in 1..Len(resolutions) :
        ( /\ resolutions[j].validator.on_fail_descriptor = "fix"
          /\ resolutions[j].fail_result.fix_value = NoneVal )
        => resolutions[j].result.kind = "raise"

\* C9: when a guard invocation returns its outcome, every Fail result in it
\* has been passed through the on_fail_handler of the validator that
\* produced it.
C9_EveryFailResolved ==
    ( /\ op.name \in {"validate", "async_validate", "call", "async_call"}
      /\ outcome # <<>> )
    => LET results == outcome[1].metadata.validation_results IN
       \A i \in 1..Len(results) :
           is_fail(results[i]) =>
               \E j \in 1..Len(resolutions) :
                   /\ resolutions[j].validator = OutputValidators[i]
                   /\ resolutions[j].fail_result = results[i]

\* The Resolution variants a handler invocation e amounts to
ResolutionVariants(e) ==
    {k \in {"Abort", "Replace", "KeepGoing", "RequestRetry"} :
        \/ k = "Abort" /\ e.result.kind = "raise"
                       /\ e.result.exc.type = "ValidationError"
        \/ k = "Replace" /\ e.result.kind = "return"
                         /\ e.result.value # e.value
        \/ k = "KeepGoing" /\ e.result.kind = "return"
                           /\ e.result.value = e.value
        \/ k = "RequestRetry" /\ e.result.kind = "retry"}

\* C10: for every on-fail action a validator can be constructed with and
\* every Fail result, on_fail_handler yields exactly one resolution: an abort
\* (ValidationError), a replacement or the unchanged value; nothing else is
\* raised and no case is left out.
C10_ResolverTotal ==
    \A j \in 1..Len(resolutions) :
        /\ resolutions[j].validator.on_fail_descriptor \in OnFailAction
        /\ Cardinality(ResolutionVariants(resolutions[j])) = 1

\* The handler was called on a validator bound with reask, which no branch
\* of the handler names
C10_Witness ==
    /\ op.name = "on_fail_handler"
    /\ Len(resolutions) = 1
    /\ resolutions[1].validator.on_fail_descriptor = "reask"
    /\ resolutions[1].result.kind = "return"

\* C11: for every value and validator list, the asynchronous service
\* returns, under every completion order of its tasks, the result list the
\* sequential service returns, element by element in binding order.
C11_ServicesAgree ==
    op.name = "async_service" =>
        service_results =
            SequentialValidatorService_validate(op.llm_output, validators).results

\* A Fix, Filter or Refrain resolution of the operation replaced the value
SubstituteProduced ==
    \E j \in 1..Len(resolutions) :
        /\ resolutions[j].validator.on_fail_descriptor
               \in {"fix", "filter", "refrain"}
        /\ resolutions[j].result.kind = "return"
        /\ resolutions[j].result.value # resolutions[j].value

\* C12: in every outcome validate or async_validate returns,
\* validated_output is None exactly when validation_passed is false and no
\* Fix, Filter or Refrain action produced a substitute value.
C12_ValidatedOutputNone ==
    ( /\ op.name \in {"validate", "async_validate"}
      /\ outcome # <<>> )
    => ( outcome[1].validated_output = NoneVal
         <=> ( ~outcome[1].validation_passed /\ ~SubstituteProduced ) )

\* A validator bound with fix failed with a fix_value and the outcome has
\* no validated_output
C12_Witness ==
    /\ op.name = "validate"
    /\ op.llm_output = "Hi"
    /\ OutputValidators =
           <<Validator_init("healthcare_completeness_fix", EnumArg("fix"))>>
    /\ outcome # <<>>
    /\ ~outcome[1].validation_passed
    /\ outcome[1].metadata.validation_results[1].fix_value # NoneVal
    /\ outcome[1].validated_output = NoneVal

\* C13: when some output validator fails and no failed validator is bound
\* with on_fail = exception, validate raises nothing and returns an outcome
\* with validation_passed = false whose validation_results holds the result
\* of every bound output validator, in binding order.
C13_NonExceptionFailReturns ==
    ( /\ op.name = "validate"
      /\ \E i \in 1..Len(OutputValidators) :
             is_fail(Validator_validate(OutputValidators[i], op.llm_output))
      /\ \A i \in 1..Len(OutputValidators) :
             is_fail(Validator_validate(OutputValidators[i], op.llm_output))
                 => OutputValidators[i].on_fail_descriptor # "exception" )
    => /\ raised = NoException
       /\ outcome # <<>>
       /\ ~outcome[1].validation_passed
       /\ outcome[1].metadata.validation_results =
              [i \in 1..Len(OutputValidators) |->
                  Validator_validate(OutputValidators[i], op.llm_output)]

\* Two validators bound with filter and noop both failed the candidate and
\* the outcome holds both results
C13_Witness ==
    /\ op.name = "validate"
    /\ op.llm_output = "Hi"
    /\ OutputValidators = <<Validator_init("test_length", EnumArg("filter")),
                            Validator_init("test_failer", EnumArg("noop"))>>
    /\ outcome # <<>>
    /\ Len(outcome[1].metadata.validation_results) = 2
    /\ is_fail(outcome[1].metadata.validation_results[2])

\* The positions 1..k of a list of k validators, in binding order
BindingOrder(vs) == [i \in 1..Len(vs) |-> i]

\* C18: sequential execution never short-circuits: the sequential service
\* and the loop of validate run every validator of the list exactly once, in
\* binding order, and return one result per validator, however many earlier
\* validators fail and whatever on-fail action they are bound with.
C18_NoShortCircuit ==
    /\ op.name = "sequential_service" =>
           /\ ran = BindingOrder(validators)
           /\ Len(service_results) = Len(validators)
    /\ op.name = "validate" =>
           /\ ran = BindingOrder(OutputValidators)
           /\ outcome # <<>>
           /\ Len(outcome[1].metadata.validation_results)
                  = Len(OutputValidators)

\* The sequential service ran a second validator after the first one, bound
\* with exception, had failed
C18_Witness ==
    /\ op.name = "sequential_service"
    /\ Len(validators) = 2
    /\ validators[1].on_fail_descriptor = "exception"
    /\ is_fail(service_results[1])
    /\ ran = <<1, 2>>
    /\ Len(service_results) = 2

\* C17: between consecutive attempts the orchestrator sleeps
\* base_delay * 2^attempt with base_delay 1 (1, 2, 4, ...), each delay at
\* least the one before: the four attempts of the exhausted reask scenario
\* are separated by sleeps of 1, 2 and 4.
C17_BackoffDelays ==
    ReaskScenario("never_passes") =>
        /\ Len(sleeps) = 3
        /\ \A k \in 1..Len(sleeps) : sleeps[k] = 1 * backoff_factor ^ (k - 1)
        /\ \A k \in 1..(Len(sleeps) - 1) : sleeps[k + 1] >= sleeps[k]

\* C19: a Fail under on_fail = fix_reask that carries a fix_value has the
\* fix_value re-validated by the validator: if it passes, the outcome keeps
\* the fixed value and no retry is requested; if it still fails, a retry is
\* requested.
C19_FixReaskRevalidates ==
    ( /\ op.name = "validate"
      /\ Len(OutputValidators) = 1
      /\ OutputValidators[1].on_fail_descriptor = "fix_reask"
      /\ is_fail(Validator_validate(OutputValidators[1], op.llm_output))
      /\ Validator_validate(OutputValidators[1], op.llm_output).fix_value
             # NoneVal )
    => LET fixed ==
               Validator_validate(OutputValidators[1], op.llm_output).fix_value
           retries == {j \in 1..Len(resolutions) :
                          resolutions[j].result.kind = "retry"}
       IN  IF is_pass(Validator_validate(OutputValidators[1], fixed))
           THEN /\ outcome # <<>>
                /\ outcome[1].validated_output = fixed
                /\ retries = {}
           ELSE retries # {}

\* C20: the first model-caller invocation of a guard invocation receives the
\* caller's prompt, and every later one a prompt that extends it with
\* feedback on the previous failure.
C20_PromptPerAttempt ==
    ( /\ op.name \in {"call", "async_call"}
      /\ op.llm_api # NoneVal
      /\ op.kwargs.prompt # Absent )
    => /\ api_calls # <<>>
       /\ api_calls[1] = op.kwargs.prompt
       /\ \A k \in 2..Len(api_calls) : api_calls[k] # op.kwargs.prompt

\* The class most recently registered under an id, None if there is none
LastRegistered(id) ==
    LET calls == {k \in 1..Len(registrations) : registrations[k].alias = id}
    IN  IF calls = {} THEN NoneVal
        ELSE registrations[CHOOSE k \in calls : \A j \in calls : j <= k].cls

\* C16: registering under an id that is already registered does not fail;
\* after any sequence of registrations a lookup of an id returns the class
\* most recently registered under it, and None for an id never registered.
C16_LastRegistrationWins ==
    /\ op.name = "register_validator" => raised = NoException
    /\ \A id \in Ids : get_validator(registry, id) = LastRegistered(id)
    /\ op.name = "get_validator" => lookup.cls = LastRegistered(lookup.id)

\* Two classes were registered under one id and the lookup of that id
\* returned the second
C16_Witness ==
    /\ op.name = "get_validator"
    /\ Len(registrations) = 2
    /\ registrations[1].alias = registrations[2].alias
    /\ registrations[1].cls # registrations[2].cls
    /\ lookup.id = registrations[2].alias
    /\ lookup.cls = registrations[2].cls

\* C14: a guard built from a rules document that declares a length
\* validator with on-fail = exception, with the validator registered under
\* the declared id, is built without error and binds that validator to the
\* output: validate passes an in-range string and aborts on a too short one.
C14_RailGuardRunsDeclared ==
    [][ ( /\ op'.name = "for_rail_string"
          /\ op'.rail_string \in {FieldRail, OutputRail}
          /\ get_validator(registry, "length") = "test_length" )
        => /\ raised' = NoException
           /\ map_get(validator_map', "output")
                  = <<Validator_init("test_length", EnumArg("exception"))>>
           /\ validate(validator_map', "Hello World").outcome.validation_passed
           /\ validate(validator_map', "Hi").raised.type = "ValidationError"
      ]_vars

\* C15: compiling a malformed rules document raises the parse error to the
\* caller and returns no plan, and a guard is not built from it.
C15_MalformedRailIsFatal ==
    /\ ( /\ op.name = "rail_string_to_schema"
         /\ ~op.rail_string.well_formed )
       => /\ raised.type = "ValueError"
          /\ compiled = <<>>
    /\ ( /\ op.name = "for_rail_string"
         /\ ~op.rail_string.well_formed )
       => raised.type = "ValueError"

\* The malformed document was compiled and the parse error was raised
C15_Witness ==
    /\ op.name = "rail_string_to_schema"
    /\ op.rail_string = MalformedRail
    /\ raised.type = "ValueError"
    /\ compiled = <<>>

\* C28: after construction and any sequence of use calls, guard.validators
\* and the bindings of validator_map hold the same validators: every
\* validator of the list is bound under a target, every bound validator is
\* in the list, and the list is as long as the bindings are many.
C28_ValidatorsMatchBindings ==
    /\ Len(validators)
           = Len(validator_map["output"]) + Len(validator_map["input"])
    /\ \A i \in 1..Len(validators) :
           \E t \in Targets : \E j \in 1..Len(validator_map[t]) :
               validator_map[t][j] = validators[i]
    /\ \A t \in Targets : \A j \in 1..Len(validator_map[t]) :
           \E i \in 1..Len(validators) : validators[i] = validator_map[t][j]

\* C29: the outcome of validate is the outcome of running the validators
\* bound to "output", and only those are run: validators bound to another
\* target change neither validation_passed, validated_output nor error_spans.
C29_OnlyOutputValidatorsRun ==
    op.name = "validate" =>
        /\ ran = BindingOrder(validator_map["output"])
        /\ outcome =
               <<ValidationOutcome(op.llm_output,
                    [i \in 1..Len(validator_map["output"]) |->
                        Validator_validate(validator_map["output"][i],
                                           op.llm_output)])>>

\* A guard with an always-failing validator bound to "input" and a length
\* validator bound to "output" passed an in-range candidate
C29_Witness ==
    /\ op.name = "validate"
    /\ op.llm_output = "Hello World"
    /\ Len(validator_map["input"]) = 1
    /\ validator_map["input"][1].cls = "test_failer"
    /\ Len(validator_map["output"]) = 1
    /\ validator_map["output"][1].cls = "test_length"
    /\ outcome # <<>>
    /\ outcome[1].validation_passed
    /\ outcome[1].validated_output = "Hello World"

\* C24: a guard invocation with a model caller creates exactly one Call
\* record, and that record holds one Iteration per generate-validate attempt,
\* numbered in increasing order.
C24_HistoryRecorded ==
    ( /\ op.name \in {"call", "async_call"}
      /\ op.llm_api # NoneVal
      /\ outcome # <<>> )
    => /\ Len(history) = 1
       /\ Len(history[1].iterations) = Len(api_calls)
       /\ \A k \in 1..(Len(history[1].iterations) - 1) :
              history[1].iterations[k].iteration_number
                  < history[1].iterations[k + 1].iteration_number

\* C26: every Fail result in the validation_results of an outcome carries a
\* non-empty error_message, also when Validator.validate or async_validate
\* built it from an exception raised inside the validator.
C26_FailHasMessage ==
    ( /\ op.name \in {"validate", "async_validate"}
      /\ outcome # <<>> )
    => \A i \in 1..Len(outcome[1].metadata.validation_results) :
           is_fail(outcome[1].metadata.validation_results[i])
               => outcome[1].metadata.validation_results[i].error_message # ""

RegisteredIds(element) ==
    SelectSeq(split_on(element.validators),
              LAMBDA id : get_validator(registry, id) # NoneVal)

\* The JSON path of a node: "output" for the output element, a dotted path
\* for a field below it
JsonPath(parent, name) ==
    CASE parent = NoneVal -> "output"
      [] name = "name" -> "output.name"
      [] OTHER -> "output.field"

\* The (path, id) declarations of the nodes of a sequence of sibling
\* elements, depth-first, with registered ids only
RECURSIVE Declarations(_, _)
Declarations(elements, parent) ==
    IF elements = <<>> THEN <<>>
    ELSE LET element == Head(elements)
             path == JsonPath(parent, element.name)
             ids == RegisteredIds(element)
         IN  [i \in 1..Len(ids) |-> [path |-> path, id |-> ids[i]]]
             \o Declarations(element.children, path)
             \o Declarations(Tail(elements), parent)

\* C21: compiling a well-formed rules document walks the output tree
\* depth-first and, for every node that declares registered validator ids,
\* appends one ValidatorReference per id in declared order bound to the
\* node's JSON path, and records the instance under that path in
\* validator_map.
C21_ReferencePerDeclaredId ==
    ( /\ op.name = "rail_string_to_schema"
      /\ op.rail_string.well_formed
      /\ op.rail_string.output # <<>> )
    => /\ raised = NoException
       /\ compiled # <<>>
       /\ LET declared == Declarations(op.rail_string.output, NoneVal)
              plan == compiled[1]
          IN  /\ Len(plan.validators) = Len(declared)
              /\ \A i \in 1..Len(declared) :
                     /\ plan.validators[i].on = declared[i].path
                     /\ declared[i].path \in DOMAIN plan.validator_map
                     /\ Len(plan.validator_map[declared[i].path])
                            = Cardinality({j \in 1..Len(declared) :
                                  declared[j].path = declared[i].path})

\* The element has an on-fail-<id> attribute for the id
HasOnFail(element, id) ==
    \E k \in 1..Len(element.on_fail) :
        element.on_fail[k].name = replace_slash(id)

\* C22: when a node declares a registered validator id and no on-fail-<id>
\* attribute for it, the compiled binding of that validator has the on-fail
\* action noop.
C22_DefaultOnFailNoop ==
    ( /\ op.name = "rail_string_to_schema"
      /\ op.rail_string.well_formed
      /\ op.rail_string.output # <<>> )
    => LET element == op.rail_string.output[1]
           ids == RegisteredIds(element)
       IN  \A i \in 1..Len(ids) :
               ~HasOnFail(element, ids[i])
                   => /\ compiled # <<>>
                      /\ Len(compiled[1].validators) >= i
                      /\ compiled[1].validators[i].on_fail = "noop"

\* The ids an element declares that are not registered
UnknownIds(element) ==
    {id \in {split_on(element.validators)[i] :
                 i \in 1..Len(split_on(element.validators))} :
         get_validator(registry, id) = NoneVal}

\* C23: a validator id of a rules document that is not registered is
\* skipped with a logged warning and does not abort the compilation: the
\* plan is returned and holds bindings for exactly the registered ids, in
\* declared order.
C23_UnknownIdSkippedWithWarning ==
    ( /\ op.name = "rail_string_to_schema"
      /\ op.rail_string.well_formed
      /\ op.rail_string.output # <<>>
      /\ UnknownIds(op.rail_string.output[1]) # {} )
    => /\ raised = NoException
       /\ compiled # <<>>
       /\ \A id \in UnknownIds(op.rail_string.output[1]) :
              \E k \in 1..Len(logged) : logged[k].subject = id
       /\ Len(compiled[1].validators)
              = Len(RegisteredIds(op.rail_string.output[1]))

\* The position of the i-th reference of a plan among the references bound
\* to the same path
PositionOnPath(plan, i) ==
    Cardinality({j \in 1..i : plan.validators[j].on = plan.validators[i].on})

C25_ConcurrentValidationsIndependent ==
    [][ tasks' # tasks =>
          /\ UNCHANGED <<validators, validator_map, processed_schema>>
          /\ \A t \in TaskIds :
                 tasks'[t].outcome # <<>> =>
                     tasks'[t].outcome[1] =
                         IF tasks'[t].kind = "validate"
                         THEN validate(validator_map',
                                       tasks'[t].llm_output).outcome
                         ELSE async_validate(validator_map',
                                             tasks'[t].llm_output).outcome
      ]_vars

\* A validate call has returned a failed outcome for one candidate while an
\* async_validate call on the same guard, started on another candidate, is
\* between its first and its second validator
C25_Witness ==
    /\ Len(validator_map["output"]) = 2
    /\ \E t, u \in TaskIds :
           /\ t # u
           /\ tasks[t].kind = "validate"
           /\ tasks[t].outcome # <<>>
           /\ ~tasks[t].outcome[1].validation_passed
           /\ Len(tasks[t].outcome[1].metadata.validation_results) = 2
           /\ tasks[u].kind = "async_validate"
           /\ tasks[u].llm_output # tasks[t].llm_output
           /\ Len(tasks[u].validation_results) = 1
           /\ tasks[u].outcome = <<>>

====
